---- MODULE Spec2Model ----
(***************************************************************************)
(* Model of eark_validator/cli/app.py: the command line driver (cli,       *)
(* process_entity, hardcopy_file) and the validation orchestrator          *)
(* (validate) that gates schema validation on the structure status and     *)
(* profile validation on the schema result.                                *)
(***************************************************************************)
EXTENDS Naturals, Sequences, FiniteSets, TLC

(* ------------------------------------------------------------------ *)
(* Bounds                                                              *)
(* ------------------------------------------------------------------ *)

\* longest argument list given to cli
MaxArgs == 3

(* ------------------------------------------------------------------ *)
(* Program constants and the packages of the model                     *)
(* ------------------------------------------------------------------ *)

ALLOWED_EXTENSIONS == {"zip", "tar", "gz", "gzip"}

\* ValidationProfile.NAMES: the rule catalog, a class attribute
NAMES == {"root", "hdr"}

\* IP.StructureStatus
StructureStatus == {"WellFormed", "NotWellFormed", "Unknown"}

\* The packages a user can name.  name: the base name split at its dots;
\* kind: what os.path.isfile / os.path.isdir say of the path; status,
\* schema_ok, failed: what the three stages find in the package.
Zoo ==
  << [name |-> <<"ip", "zip">>, kind |-> "file", status |-> "WellFormed",
      schema_ok |-> TRUE, failed |-> {}],
     [name |-> <<"ip", "tar", "GZ">>, kind |-> "file", status |-> "WellFormed",
      schema_ok |-> TRUE, failed |-> {"root"}],
     [name |-> <<"ip", "txt">>, kind |-> "file", status |-> "WellFormed",
      schema_ok |-> TRUE, failed |-> {}],
     [name |-> <<"ip">>, kind |-> "dir", status |-> "NotWellFormed",
      schema_ok |-> FALSE, failed |-> {}],
     [name |-> <<"ip", "d">>, kind |-> "dir", status |-> "WellFormed",
      schema_ok |-> FALSE, failed |-> {}],
     [name |-> <<"gone", "zip">>, kind |-> "none", status |-> "Unknown",
      schema_ok |-> FALSE, failed |-> {}],
     [name |-> <<"ip", "gzip">>, kind |-> "file", status |-> "Unknown",
      schema_ok |-> FALSE, failed |-> {}],
     [name |-> <<"", "zip">>, kind |-> "file", status |-> "WellFormed",
      schema_ok |-> TRUE, failed |-> {}] >>

Packages == DOMAIN Zoo

\* the packages cli hands to process_entity
Processable == {p \in Packages : Zoo[p].kind \in {"file", "dir"}}

\* concurrent validate() runs of the second specification
Runs == {1, 2}

(* ------------------------------------------------------------------ *)
(* Pure helpers                                                        *)
(* ------------------------------------------------------------------ *)

\* os.path.isfile / os.path.isdir
isfile(p) == Zoo[p].kind = "file"
isdir(p) == Zoo[p].kind = "dir"

\* os.path.splitext(package)[-1]: the last dot and what follows it, or
\* nothing when the name has no dot or only leading dots before it
splitext(name) ==
  IF Len(name) >= 2 /\ \E j \in 1..(Len(name) - 1) : name[j] /= ""
    THEN <<".", name[Len(name)]>>
    ELSE <<>>

\* s[1:]
DropFirst(s) == IF s = <<>> THEN <<>> ELSE Tail(s)

\* mutant of lower: the extension is compared as written
lowerSkipped(s) == s

\* str.lower on the extensions of the model
lower(s) ==
  CASE s = "GZ" -> "gz"
    [] s = "ZIP" -> "zip"
    [] s = "TAR" -> "tar"
    [] s = "GZIP" -> "gzip"
    [] s = "TXT" -> "txt"
    [] OTHER -> s

\* extension = os.path.splitext(package)[-1][1:].lower()
ExtensionLower(s) == IF s = <<>> THEN "" ELSE lower(s[1])
ExtensionOf(p) == ExtensionLower(DropFirst(splitext(Zoo[p].name)))

AllowedExtension(ext) == ext \in ALLOWED_EXTENSIONS

\* the sequences over S of length at most n
RECURSIVE SeqsUpTo(_, _)
SeqsUpTo(S, n) ==
  IF n = 0 THEN {<<>>}
  ELSE LET shorter == SeqsUpTo(S, n - 1)
       IN  shorter \cup {Append(s, x) : s \in {t \in shorter : Len(t) = n - 1}, x \in S}

(* ------------------------------------------------------------------ *)
(* State                                                               *)
(* ------------------------------------------------------------------ *)

VARIABLES
  packages,       \* cli: the argument tuple
  json,           \* cli: --json
  xml,            \* cli: --xml
  hardcopy,       \* cli: --hardcopy
  cpc,            \* where cli / process_entity / hardcopy_file stands
  idx,            \* cli: position of the package the loop is at
  extension,      \* process_entity: its extension argument
  hc,             \* hardcopy_file: its verbose and format arguments
  validation_result, \* process_entity: the report it assembles
  stdout,         \* what click.echo has printed, in order
  written,        \* the hardcopy files written, in order
  called,         \* the process_entity calls made, in order
  reports,        \* what validate() returned to process_entity, in order
  vpc,            \* validate: where each run stands
  to_validate,    \* validate: each run's argument
  lcl,            \* validate: each run's local variables
  profiles,       \* the ValidationProfile objects
  validators,     \* the MetsValidator objects
  ran,            \* the stages each run has started, in order
  fault,          \* the stage of each run that raised, or "none"
  ret,            \* what each run returned
  initValid       \* is_valid of a ValidationProfile nobody has validated with

cliVars == <<packages, json, xml, hardcopy, cpc, idx, extension, hc,
             validation_result, stdout, written, called, reports>>
valVars == <<vpc, to_validate, lcl, profiles, validators, ran, fault, ret>>
vars == <<cliVars, valVars, initValid>>

(* ------------------------------------------------------------------ *)
(* The collaborators of validate(): structure check, MetsValidator,    *)
(* ValidationProfile                                                   *)
(* ------------------------------------------------------------------ *)

\* IP.validate_package_structure_dict(to_validate)
StructDetails(p) == [path |-> p, structure_status |-> Zoo[p].status]
StructDict(p) == {<<"status", Zoo[p].status>>}

\* ValidationProfile(): a profile nothing was validated with
FreshProfile == [is_valid |-> initValid, results |-> {}]

\* profile.validate(mets_path)
ProfileValidated(prof, p) ==
  [is_valid |-> Zoo[p].failed = {},
   results |-> {<<n, IF n \in Zoo[p].failed THEN "fail" ELSE "pass">> : n \in NAMES}]

\* profile.get_results(), profile.get_results_dict()
get_results(prof) == prof.results
get_results_dict(prof) == {<<"rule", x[1], x[2] = "pass">> : x \in prof.results}

\* MetsValidator(struct_details.path)
MetsValidatorNew(path) == [root |-> path, validation_errors |-> <<>>, valid |-> "None"]

\* bool as Python prints it; None is "None"
PyBool(b) == IF b THEN "True" ELSE "False"

\* validator.validate_mets(mets_path): the validator afterwards
MetsValidated(v, p) ==
  [v EXCEPT !.valid = PyBool(Zoo[p].schema_ok),
            !.validation_errors =
               IF Zoo[p].schema_ok THEN @ ELSE Append(@, "schema violation")]

\* validator.get_results_dict()
mets_get_results_dict(v) ==
  {<<"schema", v.valid>>, <<"errors", PyBool(v.validation_errors /= <<>>)>>}

(* ------------------------------------------------------------------ *)
(* validate(to_validate)                                               *)
(* ------------------------------------------------------------------ *)

\* the locals of a validate() call before line 125 has bound any
NoLocals ==
  [struct_dict |-> {}, struct_details |-> [path |-> 0, structure_status |-> "Unset"],
   schema_result |-> "None", prof_results |-> {}, prof_results_dict |-> {},
   mets_results_dict |-> {}, schema_errors |-> <<>>]

NoReturn ==
  [struct_dict |-> {}, prof_results_dict |-> {}, mets_results_dict |-> {},
   struct_details |-> [path |-> 0, structure_status |-> "Unset"],
   schema_result |-> "None", schema_errors |-> <<>>, prof_names |-> {},
   schematron_result |-> FALSE, prof_results |-> {}]

\* mutant of ProfileOf: one module-level profile for every run
ProfileShared(r) == 1

\* the ValidationProfile object run r works with: its own
ProfileOf(r) == r

\* mutant of NewProfile: the profile of the previous call is used again
NewProfileReused(heap, k) == heap

\* line 134: profile = ValidationProfile(), held in slot k
NewProfile(heap, k) == [heap EXCEPT ![k] = FreshProfile]

\* mutant of IsWellFormed: anything but NotWellFormed passes the gate
IsNotNotWellFormed(status) == status /= "NotWellFormed"

\* line 136: if struct_details.structure_status == IP.StructureStatus.WellFormed
IsWellFormed(status) == status = "WellFormed"

\* mutant of AfterStructure: a package that is not well formed is an error
AfterStructureRaising(status) == IF status = "WellFormed" THEN "schema" ELSE "raised"

\* where control goes from line 136
AfterStructure(status) == IF IsWellFormed(status) THEN "schema" ELSE "return"

\* mutant of SchemaPassed: any schema result passes the gate
SchemaRan(res) == res /= "None"

\* line 144: if schema_result is True
SchemaPassed(res) == res = "True"

\* where control goes from line 144
AfterSchema(res) == IF SchemaPassed(res) THEN "profile" ELSE "return"

\* mutant of ProfNames: the names of the rules this profile evaluated
ProfNamesEvaluated(prof) == {x[1] : x \in prof.results}

\* line 149: prof_names = ValidationProfile.NAMES
ProfNames(prof) == NAMES

\* the stage a run is about to call, when it is about to call one
StageAt(pc) ==
  CASE pc = "structure" -> "structure"
    [] pc = "schema" -> "schema"
    [] pc = "profile" -> "profile"
    [] OTHER -> "none"

\* line 125: struct_dict, struct_details = IP.validate_package_structure_dict(...)
StructureCheck(r) ==
  /\ vpc[r] = "structure"
  /\ ran' = [ran EXCEPT ![r] = Append(@, "structure")]
  /\ lcl' = [lcl EXCEPT ![r].struct_dict = StructDict(to_validate[r]),
                        ![r].struct_details = StructDetails(to_validate[r])]
  /\ vpc' = [vpc EXCEPT ![r] = "init"]
  /\ UNCHANGED <<to_validate, profiles, validators, fault, ret, cliVars, initValid>>

\* lines 128-136: the initial values, the profile, and the structure gate
InitResults(r) ==
  /\ vpc[r] = "init"
  /\ lcl' = [lcl EXCEPT ![r].schema_result = "None",
                        ![r].prof_results = {},
                        ![r].prof_results_dict = {},
                        ![r].mets_results_dict = {},
                        ![r].schema_errors = <<>>]
  /\ profiles' = NewProfile(profiles, ProfileOf(r))
  /\ vpc' = [vpc EXCEPT ![r] = AfterStructure(lcl[r].struct_details.structure_status)]
  /\ UNCHANGED <<to_validate, validators, ran, fault, ret, cliVars, initValid>>

\* lines 138-140: validator = MetsValidator(...); schema_result = validator.validate_mets(...)
SchemaValidate(r) ==
  /\ vpc[r] = "schema"
  /\ ran' = [ran EXCEPT ![r] = Append(@, "schema")]
  /\ LET v == MetsValidated(MetsValidatorNew(lcl[r].struct_details.path),
                            lcl[r].struct_details.path)
     IN  /\ validators' = [validators EXCEPT ![r] = v]
         /\ lcl' = [lcl EXCEPT ![r].schema_result = v.valid]
  /\ vpc' = [vpc EXCEPT ![r] = "schema_results"]
  /\ UNCHANGED <<to_validate, profiles, fault, ret, cliVars, initValid>>

\* lines 141-144: the validator's dict and errors, and the schema gate
SchemaResults(r) ==
  /\ vpc[r] = "schema_results"
  /\ lcl' = [lcl EXCEPT ![r].mets_results_dict = mets_get_results_dict(validators[r]),
                        ![r].schema_errors = validators[r].validation_errors]
  /\ vpc' = [vpc EXCEPT ![r] = AfterSchema(lcl[r].schema_result)]
  /\ UNCHANGED <<to_validate, profiles, validators, ran, fault, ret, cliVars, initValid>>

\* line 145: profile.validate(mets_path)
ProfileValidate(r) ==
  /\ vpc[r] = "profile"
  /\ ran' = [ran EXCEPT ![r] = Append(@, "profile")]
  /\ profiles' = [profiles EXCEPT ![ProfileOf(r)] =
                    ProfileValidated(@, lcl[r].struct_details.path)]
  /\ vpc' = [vpc EXCEPT ![r] = "profile_results"]
  /\ UNCHANGED <<to_validate, lcl, validators, fault, ret, cliVars, initValid>>

\* lines 146-147: prof_results, prof_results_dict
ProfileResults(r) ==
  /\ vpc[r] = "profile_results"
  /\ lcl' = [lcl EXCEPT ![r].prof_results = get_results(profiles[ProfileOf(r)]),
                        ![r].prof_results_dict = get_results_dict(profiles[ProfileOf(r)])]
  /\ vpc' = [vpc EXCEPT ![r] = "return"]
  /\ UNCHANGED <<to_validate, profiles, validators, ran, fault, ret, cliVars, initValid>>

\* lines 149-151: prof_names, schematron_result, return
Return(r) ==
  /\ vpc[r] = "return"
  /\ ret' = [ret EXCEPT ![r] =
       [struct_dict |-> lcl[r].struct_dict,
        prof_results_dict |-> lcl[r].prof_results_dict,
        mets_results_dict |-> lcl[r].mets_results_dict,
        struct_details |-> lcl[r].struct_details,
        schema_result |-> lcl[r].schema_result,
        schema_errors |-> lcl[r].schema_errors,
        prof_names |-> ProfNames(profiles[ProfileOf(r)]),
        schematron_result |-> profiles[ProfileOf(r)].is_valid,
        prof_results |-> lcl[r].prof_results]]
  /\ vpc' = [vpc EXCEPT ![r] = "returned"]
  /\ UNCHANGED <<to_validate, lcl, profiles, validators, ran, fault, cliVars, initValid>>

\* lines 125, 140, 145: the call raises; validate() has no handler, so the
\* exception leaves it
StageRaises(r) ==
  /\ StageAt(vpc[r]) /= "none"
  /\ ran' = [ran EXCEPT ![r] = Append(@, StageAt(vpc[r]))]
  /\ fault' = [fault EXCEPT ![r] = StageAt(vpc[r])]
  /\ vpc' = [vpc EXCEPT ![r] = "raised"]
  /\ UNCHANGED <<to_validate, lcl, profiles, validators, ret, cliVars, initValid>>

ValidateStep(r) ==
  \/ StructureCheck(r)
  \/ InitResults(r)
  \/ SchemaValidate(r)
  \/ SchemaResults(r)
  \/ ProfileValidate(r)
  \/ ProfileResults(r)
  \/ Return(r)
  \/ StageRaises(r)

\* lines 124-151 run from the first to the last with no other run beside
\* it and no stage raising: what validate(p) returns
ValidateAlone(p) ==
  LET sd == StructDetails(p)
      wf == IsWellFormed(sd.structure_status)
      v == MetsValidated(MetsValidatorNew(sd.path), sd.path)
      ok == wf /\ SchemaPassed(v.valid)
      prof == IF ok THEN ProfileValidated(FreshProfile, sd.path) ELSE FreshProfile
  IN  [struct_dict |-> StructDict(p),
       prof_results_dict |-> IF ok THEN get_results_dict(prof) ELSE {},
       mets_results_dict |-> IF wf THEN mets_get_results_dict(v) ELSE {},
       struct_details |-> sd,
       schema_result |-> IF wf THEN v.valid ELSE "None",
       schema_errors |-> IF wf THEN v.validation_errors ELSE <<>>,
       prof_names |-> NAMES,
       schematron_result |-> prof.is_valid,
       prof_results |-> IF ok THEN get_results(prof) ELSE {}]

(* ------------------------------------------------------------------ *)
(* cli, process_entity, hardcopy_file                                  *)
(* ------------------------------------------------------------------ *)

\* the run of validate() that process_entity calls
Main == 1

Echo(msg) == stdout' = Append(stdout, [msg |-> msg, arg |-> idx])

\* process_entity(package, extension, xml, json, hardcopy) is entered
CallProcessEntity(p, ext) ==
  /\ called' = Append(called, [arg |-> idx, pkg |-> p, extension |-> ext])
  /\ extension' = ext
  /\ cpc' = "process_entity"

\* lines 34-35: no packages, the help text
CliHelp ==
  /\ cpc = "cli"
  /\ Len(packages) = 0
  /\ Echo("help")
  /\ cpc' = "done"
  /\ UNCHANGED <<packages, json, xml, hardcopy, idx, extension, hc,
                 validation_result, written, called, reports, valVars, initValid>>

\* lines 38-41: a file with an allowed extension
CliFile ==
  /\ cpc = "cli" /\ idx <= Len(packages)
  /\ isfile(packages[idx])
  /\ AllowedExtension(ExtensionOf(packages[idx]))
  /\ CallProcessEntity(packages[idx], ExtensionOf(packages[idx]))
  /\ UNCHANGED <<packages, json, xml, hardcopy, idx, hc, validation_result,
                 stdout, written, reports, valVars, initValid>>

\* lines 42-43: a file with any other extension
CliInvalidExtension ==
  /\ cpc = "cli" /\ idx <= Len(packages)
  /\ isfile(packages[idx])
  /\ ~AllowedExtension(ExtensionOf(packages[idx]))
  /\ Echo("invalid_extension")
  /\ idx' = idx + 1
  /\ UNCHANGED <<packages, json, xml, hardcopy, cpc, extension, hc,
                 validation_result, written, called, reports, valVars, initValid>>

\* lines 44-45: a directory
CliDir ==
  /\ cpc = "cli" /\ idx <= Len(packages)
  /\ ~isfile(packages[idx])
  /\ isdir(packages[idx])
  /\ CallProcessEntity(packages[idx], "directory")
  /\ UNCHANGED <<packages, json, xml, hardcopy, idx, hc, validation_result,
                 stdout, written, reports, valVars, initValid>>

\* lines 46-47: neither
CliNotValid ==
  /\ cpc = "cli" /\ idx <= Len(packages)
  /\ ~isfile(packages[idx])
  /\ ~isdir(packages[idx])
  /\ Echo("not_valid")
  /\ idx' = idx + 1
  /\ UNCHANGED <<packages, json, xml, hardcopy, cpc, extension, hc,
                 validation_result, written, called, reports, valVars, initValid>>

\* line 37: the loop has no package left
CliEnd ==
  /\ cpc = "cli"
  /\ Len(packages) > 0 /\ idx > Len(packages)
  /\ cpc' = "done"
  /\ UNCHANGED <<packages, json, xml, hardcopy, idx, extension, hc,
                 validation_result, stdout, written, called, reports, valVars,
                 initValid>>

\* lines 51-64: the metadata, then the call of validate(entity)
ProcessEntityValidate ==
  /\ cpc = "process_entity"
  /\ validation_result' =
       [metadata |-> [filename |-> Zoo[packages[idx]].name, sha1 |-> packages[idx]],
        structure |-> {}, profile |-> {}, mets |-> {}]
  /\ vpc' = [vpc EXCEPT ![Main] = "structure"]
  /\ to_validate' = [to_validate EXCEPT ![Main] = packages[idx]]
  /\ lcl' = [lcl EXCEPT ![Main] = NoLocals]
  /\ ran' = [ran EXCEPT ![Main] = <<>>]
  /\ fault' = [fault EXCEPT ![Main] = "none"]
  /\ cpc' = "validate"
  /\ UNCHANGED <<packages, json, xml, hardcopy, idx, extension, hc, stdout,
                 written, called, reports, profiles, validators, ret, initValid>>

\* lines 64-69: validate() has returned; the report is put together
ProcessEntityResults ==
  /\ cpc = "validate"
  /\ vpc[Main] = "returned"
  /\ validation_result' =
       [validation_result EXCEPT !.structure = ret[Main].struct_dict,
                                 !.profile = ret[Main].prof_results_dict,
                                 !.mets = ret[Main].mets_results_dict]
  /\ reports' = Append(reports, [arg |-> idx, pkg |-> packages[idx], res |-> ret[Main]])
  /\ vpc' = [vpc EXCEPT ![Main] = "idle"]
  /\ cpc' = "output"
  /\ UNCHANGED <<packages, json, xml, hardcopy, idx, extension, hc, stdout,
                 written, called, to_validate, lcl, profiles, validators, ran,
                 fault, ret, initValid>>

\* line 64: validate() raised; neither process_entity nor cli handles it
Uncaught ==
  /\ cpc = "validate"
  /\ vpc[Main] = "raised"
  /\ cpc' = "aborted"
  /\ UNCHANGED <<packages, json, xml, hardcopy, idx, extension, hc,
                 validation_result, stdout, written, called, reports, valVars,
                 initValid>>

\* where process_entity goes after echoing: into hardcopy_file, or back to cli
AfterEcho == IF hardcopy THEN "hardcopy" ELSE "cli"

\* lines 71-74: xml
OutputXml ==
  /\ cpc = "output"
  /\ xml
  /\ Echo("report_xml")
  /\ hc' = [verbose |-> FALSE, format |-> "xml"]
  /\ cpc' = AfterEcho
  /\ idx' = IF hardcopy THEN idx ELSE idx + 1
  /\ UNCHANGED <<packages, json, xml, hardcopy, extension, validation_result,
                 written, called, reports, valVars, initValid>>

\* lines 75-78: json
OutputJson ==
  /\ cpc = "output"
  /\ ~xml /\ json
  /\ Echo("report_json")
  /\ hc' = [verbose |-> FALSE, format |-> "json"]
  /\ cpc' = AfterEcho
  /\ idx' = IF hardcopy THEN idx ELSE idx + 1
  /\ UNCHANGED <<packages, json, xml, hardcopy, extension, validation_result,
                 written, called, reports, valVars, initValid>>

\* lines 79-80: hardcopy alone
OutputHardcopyOnly ==
  /\ cpc = "output"
  /\ ~xml /\ ~json /\ hardcopy
  /\ hc' = [verbose |-> TRUE, format |-> "json"]
  /\ cpc' = "hardcopy"
  /\ UNCHANGED <<packages, json, xml, hardcopy, idx, extension,
                 validation_result, stdout, written, called, reports, valVars,
                 initValid>>

\* line 80 not taken: no flag is set, process_entity returns
OutputNothing ==
  /\ cpc = "output"
  /\ ~xml /\ ~json /\ ~hardcopy
  /\ cpc' = "cli"
  /\ idx' = idx + 1
  /\ UNCHANGED <<packages, json, xml, hardcopy, extension, hc,
                 validation_result, stdout, written, called, reports, valVars,
                 initValid>>

\* mutant of WriterFor: the format argument is ignored
WriterForJsonOnly(format) == "json"

\* lines 89-92: which writer hardcopy_file uses for a format
WriterFor(format) == IF format = "json" THEN "json" ELSE "xml"

\* lines 83-92: hardcopy_file(filename, extension, sha1_hash, data, verbose, format)
HardcopyFile ==
  /\ cpc = "hardcopy"
  /\ stdout' = IF hc.verbose THEN Append(stdout, [msg |-> "working", arg |-> idx])
                             ELSE stdout
  /\ written' = Append(written,
       [arg |-> idx,
        folder |-> validation_result.metadata.sha1,
        file |-> <<"ip_validator", validation_result.metadata.filename,
                   WriterFor(hc.format)>>,
        writer |-> WriterFor(hc.format),
        data |-> validation_result])
  /\ cpc' = "cli"
  /\ idx' = idx + 1
  /\ UNCHANGED <<packages, json, xml, hardcopy, extension, hc,
                 validation_result, called, reports, valVars, initValid>>

(* ------------------------------------------------------------------ *)
(* Specifications                                                      *)
(* ------------------------------------------------------------------ *)

IdleValidate ==
  /\ vpc = [r \in Runs |-> "idle"]
  /\ to_validate = [r \in Runs |-> 0]
  /\ lcl = [r \in Runs |-> NoLocals]
  /\ profiles = [r \in Runs |-> FreshProfile]
  /\ validators = [r \in Runs |-> MetsValidatorNew(0)]
  /\ ran = [r \in Runs |-> <<>>]
  /\ fault = [r \in Runs |-> "none"]
  /\ ret = [r \in Runs |-> NoReturn]

\* the command line program, started on any argument list and flags
Init ==
  /\ packages \in SeqsUpTo(Packages, MaxArgs)
  /\ json \in BOOLEAN /\ xml \in BOOLEAN /\ hardcopy \in BOOLEAN
  /\ initValid \in BOOLEAN
  /\ cpc = "cli"
  /\ idx = 1
  /\ extension = ""
  /\ hc = [verbose |-> FALSE, format |-> "json"]
  /\ validation_result = [metadata |-> [filename |-> <<>>, sha1 |-> 0],
                          structure |-> {}, profile |-> {}, mets |-> {}]
  /\ stdout = <<>> /\ written = <<>> /\ called = <<>> /\ reports = <<>>
  /\ IdleValidate

Next ==
  \/ CliHelp
  \/ CliFile
  \/ CliInvalidExtension
  \/ CliDir
  \/ CliNotValid
  \/ CliEnd
  \/ ProcessEntityValidate
  \/ ProcessEntityResults
  \/ Uncaught
  \/ OutputXml
  \/ OutputJson
  \/ OutputHardcopyOnly
  \/ OutputNothing
  \/ HardcopyFile
  \/ StructureCheck(Main)
  \/ InitResults(Main)
  \/ SchemaValidate(Main)
  \/ SchemaResults(Main)
  \/ ProfileValidate(Main)
  \/ ProfileResults(Main)
  \/ Return(Main)
  \/ StageRaises(Main)

Spec == Init /\ [][Next]_vars

\* two validate() calls on different packages, their steps interleaved
ConcInit ==
  /\ packages = <<>>
  /\ json = FALSE /\ xml = FALSE /\ hardcopy = FALSE
  /\ initValid \in BOOLEAN
  /\ cpc = "none"
  /\ idx = 1
  /\ extension = ""
  /\ hc = [verbose |-> FALSE, format |-> "json"]
  /\ validation_result = [metadata |-> [filename |-> <<>>, sha1 |-> 0],
                          structure |-> {}, profile |-> {}, mets |-> {}]
  /\ stdout = <<>> /\ written = <<>> /\ called = <<>> /\ reports = <<>>
  /\ vpc = [r \in Runs |-> "structure"]
  /\ to_validate \in {f \in [Runs -> Processable] : f[1] /= f[2]}
  /\ lcl = [r \in Runs |-> NoLocals]
  /\ profiles = [r \in Runs |-> FreshProfile]
  /\ validators = [r \in Runs |-> MetsValidatorNew(0)]
  /\ ran = [r \in Runs |-> <<>>]
  /\ fault = [r \in Runs |-> "none"]
  /\ ret = [r \in Runs |-> NoReturn]

ConcNext ==
  \E r \in Runs :
    \/ StructureCheck(r)
    \/ InitResults(r)
    \/ SchemaValidate(r)
    \/ SchemaResults(r)
    \/ ProfileValidate(r)
    \/ ProfileResults(r)
    \/ Return(r)
    \/ StageRaises(r)

\* each thread keeps executing its validate() call while it has a next statement
ConcSpec == ConcInit /\ [][ConcNext]_vars /\ \A r \in Runs : WF_vars(ValidateStep(r))

(* ------------------------------------------------------------------ *)
(* Properties                                                          *)
(* ------------------------------------------------------------------ *)

\* every result validate() has returned so far
ReturnedResults ==
  {reports[i].res : i \in DOMAIN reports} \cup {ret[r] : r \in {q \in Runs : vpc[q] = "returned"}}

Terminated(r) == vpc[r] \in {"returned", "raised"}

StageOrder == <<"structure", "schema", "profile">>

Started(r, stage) == \E k \in DOMAIN ran[r] : ran[r][k] = stage

\* C1: in every result validate() returns, the profile results are present
\* only if the schema result is present and valid, and the schema outputs
\* are present only if the structure status is WellFormed.
C1_PresenceGated ==
  \A x \in ReturnedResults :
    /\ (x.prof_results /= {} \/ x.prof_results_dict /= {}) => x.schema_result = "True"
    /\ (x.schema_result /= "None" \/ x.mets_results_dict /= {} \/ x.schema_errors /= <<>>)
         => x.struct_details.structure_status = "WellFormed"

C1_Witness ==
  /\ \E x \in ReturnedResults : x.prof_results /= {} /\ x.prof_results_dict /= {}
  /\ \E x \in ReturnedResults : x.schema_result = "False" /\ x.schema_errors /= <<>>
  /\ \E x \in ReturnedResults : x.struct_details.structure_status = "NotWellFormed"

\* C2: in one validate() call the stages start in the order structure, schema,
\* profile, each at most once; the structure check always runs, schema
\* validation runs exactly when the status is WellFormed, profile validation
\* exactly when schema validation ran and returned True.
C2_StagesGatedInOrder ==
  \A r \in Runs :
    /\ Len(ran[r]) <= Len(StageOrder)
    /\ ran[r] = SubSeq(StageOrder, 1, Len(ran[r]))
    /\ Terminated(r) =>
         /\ Started(r, "structure")
         /\ Started(r, "schema") <=> lcl[r].struct_details.structure_status = "WellFormed"
         /\ Started(r, "profile") <=> (Started(r, "schema") /\ lcl[r].schema_result = "True")

C2_Witness ==
  /\ vpc[Main] = "returned"
  /\ ran[Main] = <<"structure">>
  /\ lcl[Main].struct_details.structure_status = "Unknown"
  /\ \E i \in DOMAIN reports : reports[i].res.prof_results /= {}

\* C3: every validate() call ends, and it ends by returning its report
\* whenever no stage raised: a NotWellFormed structure, an invalid schema
\* result or a failed profile never aborts the call.
C3_OutcomesNeverAbort ==
  \A r \in Runs :
    /\ [](vpc[r] = "raised" => fault[r] /= "none")
    /\ [](vpc[r] = "returned" => ret[r].struct_details.path = to_validate[r])
    /\ (vpc[r] = "structure") ~> (vpc[r] = "returned" \/ fault[r] /= "none")

C3_Witness ==
  /\ vpc[1] = "returned" /\ ret[1].struct_details.structure_status = "NotWellFormed"
  /\ vpc[2] = "returned" /\ ret[2].schema_result = "True" /\ ~ret[2].schematron_result
  /\ fault = [r \in Runs |-> "none"]

\* C4 (as claimed): when a stage raises, only that stage is aborted and
\* validate() still returns a report: no call ends with the exception
\* leaving validate(), and a call in which a stage raised ends returned.
C4_FaultStillReports ==
  \A r \in Runs :
    /\ vpc[r] /= "raised"
    /\ (fault[r] /= "none" /\ Terminated(r)) => vpc[r] = "returned"

\* C5 (as claimed): a skipped stage is reported as not run: schema_result is
\* None exactly when schema validation did not run, and when profile
\* validation did not run schematron_result and prof_results are not those
\* of a passing or of a failing profile run.
C5_SkippedIsNotRun ==
  \A r \in Runs :
    vpc[r] = "returned" =>
      /\ ret[r].schema_result = "None" <=> ~Started(r, "schema")
      /\ ~Started(r, "profile") =>
           \A p \in Processable :
             /\ ret[r].schematron_result /= ProfileValidated(FreshProfile, p).is_valid
             /\ ret[r].prof_results /= ProfileValidated(FreshProfile, p).results

\* C6: two validate() calls on the same package return equal results,
\* whatever was validated in between.
C6_SamePackageSameResult ==
  \A i, j \in DOMAIN reports :
    reports[i].pkg = reports[j].pkg => reports[i].res = reports[j].res

C6_Witness ==
  /\ Len(reports) = 3
  /\ reports[1].pkg = reports[3].pkg
  /\ reports[2].pkg /= reports[1].pkg
  /\ reports[2].res.schematron_result /= reports[1].res.schematron_result

\* C7: when two validate() runs on different packages are interleaved, each
\* returns what it returns when run alone.
C7_InterleavedAsAlone ==
  \A r \in Runs : vpc[r] = "returned" => ret[r] = ValidateAlone(to_validate[r])

C7_Witness ==
  /\ vpc[1] = "returned" /\ ret[1].prof_results = {}
  /\ vpc[2] = "profile_results"
  /\ profiles[1] /= profiles[2]

\* C8: prof_names is the same in every result validate() returns, whether
\* profile validation ran or was skipped.
C8_CatalogOnEveryPath ==
  \A x, y \in ReturnedResults : x.prof_names = y.prof_names /\ x.prof_names /= {}

C8_Witness ==
  /\ \E x \in ReturnedResults : x.prof_results /= {}
  /\ \E x \in ReturnedResults : x.schema_result = "False"
  /\ \E x \in ReturnedResults : x.schema_result = "None"

\* the positions of the argument list that were handed to process_entity, and
\* those that were rejected with a message
CalledArgs == {called[k].arg : k \in DOMAIN called}
Rejections == {k \in DOMAIN stdout : stdout[k].msg \in {"invalid_extension", "not_valid"}}
RejectedArgs == {stdout[k].arg : k \in Rejections}

\* what the claim expects of each package of the model: the extension
\* process_entity is called with, or the message
Expected ==
  << "zip", "gz", "invalid_extension", "directory", "directory", "not_valid",
     "gzip", "invalid_extension" >>

\* the positions cli is through with
HandledSoFar ==
  IF cpc \in {"cli", "done"} THEN 1..(idx - 1) ELSE 1..idx

\* C9: for a non-empty argument list cli handles the packages in argument
\* order, each once: process_entity is called exactly for directories and
\* files with an allowed lower-cased extension, any other package only gets
\* a message and is not validated, and when cli returns every package was
\* handled.
C9_DispatchInOrder ==
  Len(packages) > 0 =>
    /\ CalledArgs \cup RejectedArgs = HandledSoFar
    /\ CalledArgs \cap RejectedArgs = {}
    /\ Cardinality(CalledArgs) = Len(called)
    /\ Cardinality(RejectedArgs) = Cardinality(Rejections)
    /\ \A k \in DOMAIN called :
         /\ called[k].pkg = packages[called[k].arg]
         /\ called[k].extension = Expected[called[k].pkg]
         /\ \A m \in DOMAIN called : k < m => called[k].arg < called[m].arg
    /\ \A k \in Rejections :
         /\ stdout[k].msg = Expected[packages[stdout[k].arg]]
         /\ \A m \in Rejections : k < m => stdout[k].arg < stdout[m].arg
    /\ \A i \in DOMAIN reports : reports[i].arg \in CalledArgs
    /\ \A i \in DOMAIN written : written[i].arg \in CalledArgs
    /\ cpc = "done" => idx = Len(packages) + 1

C9_Witness ==
  /\ cpc = "done"
  /\ Len(packages) = 3
  /\ RejectedArgs = {1}
  /\ called[1].extension = "gz"
  /\ called[2].extension = "directory"

\* the hardcopy files and the report echoes of the process_entity call for
\* argument k
WritesOf(k) == {j \in DOMAIN written : written[j].arg = k}
EchoesOf(k) ==
  {j \in DOMAIN stdout : stdout[j].arg = k /\ stdout[j].msg \in {"report_xml", "report_json"}}

\* C10: a process_entity call writes the hardcopy file once when hardcopy is
\* set and never otherwise, only after validate() has returned; it echoes the
\* report at most once, as XML when xml is set, else as JSON when json is
\* set, else not at all; the file is XML exactly when xml is set.
C10_OutputByFlags ==
  \A k \in CalledArgs :
    /\ Cardinality(WritesOf(k)) <= 1
    /\ Cardinality(EchoesOf(k)) <= 1
    /\ ~hardcopy => WritesOf(k) = {}
    /\ (~xml /\ ~json) => EchoesOf(k) = {}
    /\ \A j \in WritesOf(k) :
         /\ \E i \in DOMAIN reports :
              /\ reports[i].arg = k
              /\ written[j].data.structure = reports[i].res.struct_dict
              /\ written[j].data.profile = reports[i].res.prof_results_dict
              /\ written[j].data.mets = reports[i].res.mets_results_dict
         /\ written[j].writer = "xml" <=> xml
         /\ written[j].file[3] = (IF xml THEN "xml" ELSE "json")
    /\ \A j \in EchoesOf(k) :
         /\ \E i \in DOMAIN reports : reports[i].arg = k
         /\ stdout[j].msg = (IF xml THEN "report_xml" ELSE "report_json")
    /\ k < idx =>
         /\ hardcopy => Cardinality(WritesOf(k)) = 1
         /\ (xml \/ json) => Cardinality(EchoesOf(k)) = 1

C10_Witness ==
  /\ cpc = "done"
  /\ xml /\ json /\ hardcopy
  /\ Len(written) = 2
  /\ written[1].writer = "xml"

====
